---- MODULE Spec2Model ----
(***************************************************************************)
(* Model of the GoFundMe collection pipeline.                              *)
(*                                                                         *)
(*   src/gofundme_scraper_show_more.py  GoFundMeFinalScraper: the          *)
(*       Discovery Loop (collect_all_urls) and the Detail Loop             *)
(*       (extract_all_details), run one after the other by main().         *)
(*   src/gofundme_scraper.py            GoFundMeScraper: the paginated     *)
(*       scraper (scrape_campaigns).                                       *)
(*   src/image_analyzer.py              ImageAnalyzer: the Enrichment      *)
(*       Adapter (process_campaigns).                                      *)
(*                                                                         *)
(* The behaviours specified: Spec (main() of the final scraper),           *)
(* SpecBudget (long runs of the Discovery Loop), SpecPaged (the paginated  *)
(* scraper; SpecPagedFair adds that it keeps running), SpecEnrich (the     *)
(* Enrichment Adapter), and the extractors as                              *)
(* functions: SpecCanon (the cleaning of a link), SpecAge (the age of a    *)
(* campaign), SpecAmount (the amount raised), SpecDesc (the description).  *)
(*                                                                         *)
(* Strings are sequences of one-character strings, so that split('?'),     *)
(* rstrip('/') and the substring test '/f/' in href are computed, not      *)
(* assumed.  Campaigns are numbered in the order in which the listing      *)
(* first shows them (the n-th campaign ever shown has the slug Digits(n)); *)
(* a read of the listing is any set of links to campaigns already shown    *)
(* plus links to the next few campaigns, each link in any decoration       *)
(* (trailing slash, query string).                                         *)
(***************************************************************************)
EXTENDS Integers, Sequences, FiniteSets, TLC

VARIABLES
    pc,             \* position of main() / of the loop that is running
    max_campaigns,  \* the target handed to collect_all_urls
    campaign_urls,  \* self.campaign_urls, a Python set of cleaned URLs
    attempts,       \* local of collect_all_urls
    no_new_count,   \* local of collect_all_urls
    driver,         \* self.driver: "None" or "set"
    live,           \* number of browser processes started and not yet quit
    exc,            \* exception in flight: "none", "error", "interrupt"
    urls_list,      \* value returned by collect_all_urls
    reads,          \* history: calls of extract_visible_urls made by the loop
    recent,         \* history: number of new URLs of the last (up to 3) reads
    known,          \* history: number of campaigns the listing has shown
    outcome,        \* history: how the Discovery Loop ended
    rounds,         \* history: reads that found at least one new URL
    foundAt,        \* history: cleaned URL -> which of those reads found it
    campaigns,      \* self.campaigns, the output sequence of records
    i,              \* loop index of extract_all_details (1-based), 0 before
    data,           \* the record extract_campaign_details is assembling
    processed,      \* history: loop bodies of the Detail Loop that reached line 311
    fetches,        \* history: campaign pages requested with driver.get
    signals,        \* history: KeyboardInterrupts delivered to the Detail Loop
    sigAt,          \* history: index of the URL in work at the first of them
    repeats,        \* history: how campaigns were linked again ("same_read", "later_read")
    revealed,       \* history: reveal attempts made since the last read
    button,         \* history: what the last of them found ("none" before it)
    reveal_how,     \* history: how it revealed: "click", "scroll" ("none" before it)
    failed,         \* history: indices of the URLs whose page fetch raised
    c_u,            \* canonicalisation check: the input string
    c_out,          \* canonicalisation check: the computed results
    p_pc,           \* paginated scraper: position of scrape_campaigns
    p_max,          \* its parameter max_campaigns
    p_max_pages,    \* its parameter max_pages
    page,           \* its local page
    total_scraped,  \* its local total_scraped
    page_campaigns, \* the cards of the current page not yet handled
    p_campaigns,    \* self.campaigns of GoFundMeScraper
    p_failed,       \* history: indices of the records whose detail fetch failed
    p_requested,    \* history: the listing pages requested, in order
    p_yield,        \* history: how many campaigns each of them yielded
    p_details,      \* history: how many detail pages were fetched
    f_in,           \* function checks: the input of the extractor under check
    f_out,          \* function checks: its result, <<>> before it ran
    e_pc,           \* ImageAnalyzer: position of process_campaigns
    service,        \* self.service
    e_campaigns,    \* the argument campaigns of process_campaigns
    enriched_campaigns, \* its local enriched_campaigns
    e_calls         \* history: the image URLs sent to the vision service

discVars == <<max_campaigns, campaign_urls, attempts, no_new_count, urls_list,
              reads, recent, known, outcome, rounds, foundAt, repeats,
              revealed, button, reveal_how>>
procVars == <<pc, driver, live, exc>>
detailVars == <<campaigns, i, data, processed, fetches, signals, sigAt, failed>>
canonVars == <<c_u, c_out>>
pagedVars == <<p_pc, p_max, p_max_pages, page, total_scraped, page_campaigns,
               p_campaigns, p_failed, p_requested, p_yield, p_details>>
funVars == <<f_in, f_out>>
enrVars == <<e_pc, service, e_campaigns, enriched_campaigns, e_calls>>

----------------------------------------------------------------------------
(* Bounds of the model                                                     *)

\* largest target (max_campaigns) of the full pipeline
MaxTarget == 2
\* largest number of campaigns one read shows for the first time
MaxNew == 3
\* target of the long discovery runs (iteration budget)
BigTarget == 36
\* most KeyboardInterrupts delivered during one Detail Loop
MaxSignals == 2
\* longest input string of the canonicalisation check
MaxLen == 4
\* most phrases in a text handed to the age normalizer
MaxPhrases == 3

(* Program constants                                                       *)

\* `attempts <= 100` in the loop condition
AttemptLimit == 100
\* `no_new_count >= 3`
StrikeLimit == 3

----------------------------------------------------------------------------
(* Strings                                                                 *)

Min(a, b) == IF a < b THEN a ELSE b

DigitChar == <<"0", "1", "2", "3", "4", "5", "6", "7", "8", "9">>

RECURSIVE Digits(_)
Digits(n) ==
    IF n < 10 THEN <<DigitChar[n + 1]>>
    ELSE Digits(n \div 10) \o <<DigitChar[(n % 10) + 1]>>

\* index of the first ch in s, 0 when there is none
RECURSIVE FirstIndex(_, _, _)
FirstIndex(s, ch, j) ==
    IF j > Len(s) THEN 0
    ELSE IF s[j] = ch THEN j
    ELSE FirstIndex(s, ch, j + 1)

\* href.split('?')[0]: the text before the first '?'
SplitQuery(s) ==
    LET j == FirstIndex(s, "?", 1)
    IN  IF j = 0 THEN s ELSE SubSeq(s, 1, j - 1)

\* faulty variant of RStripSlash: only one trailing '/' removed
RStripOneSlash(s) ==
    IF Len(s) > 0 /\ s[Len(s)] = "/" THEN SubSeq(s, 1, Len(s) - 1) ELSE s

\* s.rstrip('/'): every trailing '/' removed
RECURSIVE RStripSlash(_)
RStripSlash(s) ==
    IF Len(s) > 0 /\ s[Len(s)] = "/" THEN RStripSlash(SubSeq(s, 1, Len(s) - 1))
    ELSE s

\* '/f/' in href
HasCampaignPath(s) ==
    \E j \in 1..(Len(s) - 2) : s[j] = "/" /\ s[j + 1] = "f" /\ s[j + 2] = "/"

\* faulty variant of Clean: the query string is cut, the trailing slash is kept
CleanKeepSlash(href) == SplitQuery(href)

\* clean_url = href.split('?')[0].rstrip('/')
Clean(href) == RStripSlash(SplitQuery(href))

----------------------------------------------------------------------------
(* The listing surface                                                     *)

\* scheme and host, one character, then the fundraiser path prefix
Prefix == <<"h", "/", "f", "/">>

\* what may follow the slug in an href
Decos == { <<>>, <<"/">>, <<"?", "x", "=", "1">>, <<"/", "?", "x", "=", "1">> }

\* the href of a link to campaign c in decoration d
Href(c, d) == Prefix \o Digits(c) \o d

\* the cleaned URL under which campaign c is expected
UrlOf(c) == Prefix \o Digits(c)

\* extract_visible_urls: the cleaned URLs of the links whose href is not
\* empty and holds '/f/' (a list without duplicates in the code; only
\* membership of it is used by the caller, so a set here)
ExtractVisible(links) ==
    { Clean(Href(l[1], l[2])) : l \in { m \in links : HasCampaignPath(Href(m[1], m[2])) } }

\* new_urls = [u for u in visible_urls if u not in self.campaign_urls]
NewUrls(visible, frontier) == visible \ frontier

----------------------------------------------------------------------------
(* Discovery Loop: collect_all_urls                                        *)

\* faulty variant of StrikeOut: one more strike is allowed
StrikeOutLate(n) == n > StrikeLimit

\* `if no_new_count >= 3: break`
StrikeOut(n) == n >= StrikeLimit

\* `len(self.campaign_urls) < max_campaigns and attempts <= 100`
LoopCondition(size, target, att) == size < target /\ att <= AttemptLimit

\* the last (up to) three entries of the history of reads
Push(h, n) == IF Len(h) < StrikeLimit THEN Append(h, n) ELSE Append(Tail(h), n)

\* faulty variant of AddAll: the Frontier is overwritten by the new URLs
AddAllReplace(frontier, new_urls) == new_urls

\* lines 139-140: `for u in new_urls: self.campaign_urls.add(u)`
AddAll(frontier, new_urls) == frontier \cup new_urls

\* faulty variant of Strikes: the counter is not reset by a read with new URLs
StrikesNoReset(new_urls, n) == IF new_urls # {} THEN n ELSE n + 1

\* lines 134-145: no_new_count = 0 after a read with new URLs, else
\* no_new_count += 1
Strikes(new_urls, n) == IF new_urls # {} THEN 0 ELSE n + 1

\* setup_driver() at line 112 succeeds: webdriver.Chrome(...) is assigned
DiscoverSetup ==
    /\ pc = "start"
    /\ pc' = "d_opened"
    /\ driver' = "set"
    /\ live' = live + 1
    /\ UNCHANGED <<exc, discVars, detailVars, canonVars, pagedVars, funVars, enrVars>>

\* ChromeDriverManager().install() or webdriver.Chrome() raises: no driver
\* exists and the run aborts
SetupFails ==
    /\ pc = "start"
    /\ pc' = "crashed"
    /\ exc' = "error"
    /\ UNCHANGED <<driver, live, discVars, detailVars, canonVars, pagedVars, funVars, enrVars>>

\* lines 114-117: the try block is entered
DiscoverEnterTry ==
    /\ pc = "d_opened"
    /\ pc' = "d_load"
    /\ UNCHANGED <<driver, live, exc, discVars, detailVars, canonVars, pagedVars, funVars, enrVars>>

\* lines 118-127: the listing is loaded and scrolled, the counters are set
DiscoverLoad ==
    /\ pc = "d_load"
    /\ pc' = "d_loop"
    /\ attempts' = 0
    /\ no_new_count' = 0
    /\ UNCHANGED <<driver, live, exc, max_campaigns, campaign_urls, urls_list,
                   reads, recent, known, outcome, rounds, foundAt, repeats,
                   revealed, button, reveal_how, detailVars, canonVars, pagedVars, funVars, enrVars>>

\* the while condition at line 129 is false: the loop is left
DiscoverLoopEnd ==
    /\ pc = "d_loop"
    /\ ~LoopCondition(Cardinality(campaign_urls), max_campaigns, attempts)
    /\ pc' = "d_finally"
    /\ outcome' = IF Cardinality(campaign_urls) >= max_campaigns
                  THEN "Capped" ELSE "Converged"
    /\ UNCHANGED <<driver, live, exc, max_campaigns, campaign_urls, attempts,
                   no_new_count, urls_list, reads, recent, known, rounds, foundAt, repeats,
                   revealed, button, reveal_how, detailVars, canonVars, pagedVars, funVars, enrVars>>

\* lines 129-154: one read of the listing, the update of the Frontier and of
\* the strike counter, and the two stop conditions.  The read shows links to
\* the campaigns in old (already shown) and to the next k campaigns, each in
\* every decoration of D.
DiscoverRead(k, D, old) ==
    /\ pc = "d_loop"
    /\ LoopCondition(Cardinality(campaign_urls), max_campaigns, attempts)
    /\ LET links == (old \cup ((known + 1)..(known + k))) \X D
           visible_urls == ExtractVisible(links)
           new_urls == NewUrls(visible_urls, campaign_urls)
           frontier == AddAll(campaign_urls, new_urls)
           strikes == Strikes(new_urls, no_new_count)
       IN  /\ campaign_urls' = frontier
           /\ no_new_count' = strikes
           /\ reads' = reads + 1
           /\ recent' = Push(recent, Cardinality(new_urls))
           /\ known' = known + k
           /\ repeats' = repeats \cup (IF old # {} THEN {"later_read"} ELSE {})
                                  \cup (IF links # {} /\ Cardinality(D) > 1
                                        THEN {"same_read"} ELSE {})
           /\ rounds' = IF new_urls # {} THEN rounds + 1 ELSE rounds
           /\ revealed' = 0
           /\ button' = "none"
           /\ reveal_how' = "none"
           /\ foundAt' = [u \in frontier |->
                            IF u \in campaign_urls THEN foundAt[u] ELSE rounds + 1]
           /\ IF Cardinality(frontier) >= max_campaigns
              THEN /\ pc' = "d_finally"
                   /\ outcome' = "Capped"
              ELSE IF StrikeOut(strikes)
              THEN /\ pc' = "d_finally"
                   /\ outcome' = "Exhausted"
              ELSE /\ pc' = "d_reveal"
                   /\ UNCHANGED outcome
    /\ UNCHANGED <<driver, live, exc, max_campaigns, attempts, urls_list,
                   detailVars, canonVars, pagedVars, funVars, enrVars>>

\* what the page offers when click_show_more looks for the affordance: a
\* button with the text "show more", only another button with "more" in its
\* text, no such button, or a button whose click raises
Buttons == {"show_more", "more", "missing", "click_fails"}

\* faulty variant of ClickShowMore: success is reported whatever was found
ClickShowMoreAlways(b) == TRUE

\* click_show_more, lines 50-84: True when the button found by the XPath
\* (line 69) or by the fallback search (line 79) was clicked; False when
\* there is none (line 81) or the click raised (line 84)
ClickShowMore(b) == b \in {"show_more", "more"}

\* lines 156-165: click_show_more() (which returns False instead of raising),
\* the scroll fallback when it returned False, then attempts += 1
DiscoverReveal(b) ==
    /\ pc = "d_reveal"
    /\ pc' = "d_loop"
    /\ attempts' = attempts + 1
    /\ revealed' = revealed + 1
    /\ button' = b
    /\ reveal_how' = IF ClickShowMore(b) THEN "click" ELSE "scroll"
    /\ UNCHANGED <<driver, live, exc, max_campaigns, campaign_urls, no_new_count,
                   urls_list, reads, recent, known, outcome, rounds, foundAt, repeats,
                   detailVars, canonVars, pagedVars, funVars, enrVars>>

\* an exception (driver.get or execute_script failing) or a KeyboardInterrupt
\* raised inside the try block of collect_all_urls, which has no except clause
DiscoverRaise(e) ==
    /\ pc \in {"d_load", "d_loop", "d_reveal"}
    /\ exc = "none"
    /\ pc' = "d_finally"
    /\ exc' = e
    /\ outcome' = "Aborted"
    /\ UNCHANGED <<driver, live, max_campaigns, campaign_urls, attempts,
                   no_new_count, urls_list, reads, recent, known, rounds, foundAt, repeats,
                   revealed, button, reveal_how, detailVars, canonVars, pagedVars, funVars, enrVars>>

\* lines 167-170: finally: if self.driver: self.driver.quit(); the exception
\* in flight, if any, then leaves collect_all_urls and ends main()
DiscoverFinally ==
    /\ pc = "d_finally"
    /\ live' = IF driver = "set" THEN live - 1 ELSE live
    /\ pc' = IF exc = "none" THEN "d_return" ELSE "crashed"
    /\ UNCHANGED <<driver, exc, discVars, detailVars, canonVars, pagedVars, funVars, enrVars>>

\* list(self.campaign_urls): a Python set of strings iterates in the order of
\* its hash table, which string-hash randomisation changes from run to run;
\* every order of the elements is a possible list
Orders(S) ==
    { s \in [1..Cardinality(S) -> S] : \A a, b \in 1..Cardinality(S) : s[a] = s[b] => a = b }

\* faulty variant of Snapshot: the slice is forgotten
SnapshotAll(order, limit) == order

\* list(self.campaign_urls)[:max_campaigns]
Snapshot(order, limit) == SubSeq(order, 1, Min(limit, Len(order)))

\* lines 172-177: urls_list = list(self.campaign_urls)[:max_campaigns] is
\* returned
DiscoverReturn ==
    /\ pc = "d_return"
    /\ \E order \in Orders(campaign_urls) : urls_list' = Snapshot(order, max_campaigns)
    /\ pc' = "d_returned"
    /\ UNCHANGED <<driver, live, exc, max_campaigns, campaign_urls, attempts,
                   no_new_count, reads, recent, known, outcome, rounds, foundAt, repeats,
                   revealed, button, reveal_how,
                   detailVars, canonVars, pagedVars, funVars, enrVars>>

\* main() lines 373-380: `if not urls: return`, else extract_all_details(urls)
\* is called.  The locals of collect_all_urls are gone, and the history of
\* the finished Discovery Loop is closed with them.
MainAfterDiscovery ==
    /\ pc = "d_returned"
    /\ pc' = IF urls_list = <<>> THEN "done" ELSE "x_start"
    /\ attempts' = 0
    /\ no_new_count' = 0
    /\ reads' = 0
    /\ recent' = <<>>
    /\ known' = 0
    /\ rounds' = 0
    /\ foundAt' = <<>>
    /\ repeats' = {}
    /\ revealed' = 0
    /\ button' = "none"
    /\ reveal_how' = "none"
    /\ UNCHANGED <<driver, live, exc, max_campaigns, campaign_urls, urls_list,
                   outcome, detailVars, canonVars, pagedVars, funVars, enrVars>>

----------------------------------------------------------------------------
(* Detail Loop: extract_all_details and extract_campaign_details           *)

Fields == {"url", "image_url", "amount_raised", "description", "days_running"}

\* data[k] = v
Put(r, k, v) == [x \in (DOMAIN r) \cup {k} |-> IF x = k THEN v ELSE r[x]]

\* The pages of the site: whether the page at url holds the element a field is
\* read from.  Pages differ: those whose slug ends in 1 hold every element,
\* those ending in 2 lack the og:image tag and the creation text, the others
\* lack the description.
PageHas(url, f) ==
    CASE url[Len(url)] = "1" -> TRUE
      [] url[Len(url)] = "2" -> f \notin {"image_url", "days_running"}
      [] OTHER -> f # "description"

\* what the page of a campaign yields for a field when the lookup succeeds
PageValue(f) ==
    CASE f = "image_url" -> "img"
      [] f = "amount_raised" -> "1250"
      [] f = "description" -> "story"
      [] f = "days_running" -> "3"

\* what the except clause of a field's try block assigns
FieldDefault(f) ==
    CASE f = "image_url" -> ""
      [] f = "amount_raised" -> "0"
      [] f = "description" -> ""
      [] f = "days_running" -> "Unknown"

\* lines 287-295: the record returned when extract_campaign_details fails
Degraded(url) ==
    [url |-> url, image_url |-> "", amount_raised |-> "0", description |-> "",
     days_running |-> "Unknown"]

\* the field a position of extract_campaign_details fills, and the next position
FieldAt(p) ==
    CASE p = "x_image" -> "image_url"
      [] p = "x_amount" -> "amount_raised"
      [] p = "x_desc" -> "description"
      [] p = "x_days" -> "days_running"

AfterField(p) ==
    CASE p = "x_image" -> "x_amount"
      [] p = "x_amount" -> "x_desc"
      [] p = "x_desc" -> "x_days"
      [] p = "x_days" -> "x_append"

FieldPcs == {"x_image", "x_amount", "x_desc", "x_days"}

\* faulty variant of OnInterrupt: the records are discarded on abort
OnInterruptDiscard(cs) == <<>>

\* lines 317-318: the handler of KeyboardInterrupt only reports; the records
\* stay in self.campaigns
OnInterrupt(cs) == cs

\* line 309: self.campaigns.append(campaign_data)
AppendRecord(cs, r) == Append(cs, r)

\* setup_driver() at line 304 succeeds
DetailSetup ==
    /\ pc = "x_start"
    /\ pc' = "x_opened"
    /\ driver' = "set"
    /\ live' = live + 1
    /\ UNCHANGED <<exc, discVars, detailVars, canonVars, pagedVars, funVars, enrVars>>

\* setup_driver() at line 304 raises before a driver exists
DetailSetupFails ==
    /\ pc = "x_start"
    /\ pc' = "crashed"
    /\ exc' = "error"
    /\ UNCHANGED <<driver, live, discVars, detailVars, canonVars, pagedVars, funVars, enrVars>>

\* line 306: the try block is entered
DetailEnterTry ==
    /\ pc = "x_opened"
    /\ pc' = "x_next"
    /\ UNCHANGED <<driver, live, exc, discVars, detailVars, canonVars, pagedVars, funVars, enrVars>>

\* An exception (the print at line 43 failing to encode its text) or a
\* KeyboardInterrupt raised after webdriver.Chrome() was assigned at line 41
\* and before the try block is entered (lines 43, 114-115): no finally clause
\* is active yet, the exception leaves the loop's function and ends main()
RaiseOutsideTry(e) ==
    /\ pc \in {"d_opened", "x_opened"}
    /\ pc' = "crashed"
    /\ exc' = e
    /\ UNCHANGED <<driver, live, discVars, detailVars, canonVars, pagedVars, funVars, enrVars>>

\* line 307: the for loop takes the next URL, or ends
DetailNext ==
    /\ pc = "x_next"
    /\ IF i < Len(urls_list)
       THEN /\ i' = i + 1
            /\ pc' = "x_get"
       ELSE /\ pc' = "x_finally"
            /\ UNCHANGED i
    /\ UNCHANGED <<driver, live, exc, discVars, campaigns, data, processed,
                   fetches, signals, sigAt, failed, canonVars, pagedVars, funVars, enrVars>>

\* lines 225-233: the page is fetched and its text read; data = {'url': url}
DetailGet ==
    /\ pc = "x_get"
    /\ pc' = "x_image"
    /\ data' = [url |-> urls_list[i]]
    /\ fetches' = fetches + 1
    /\ UNCHANGED <<driver, live, exc, discVars, campaigns, i, processed,
                   signals, sigAt, failed, canonVars, pagedVars, funVars, enrVars>>

\* lines 228-233 raise an Exception (navigation error, no body element): the
\* handler at lines 287-295 returns the degraded record
DetailGetFails ==
    /\ pc = "x_get"
    /\ pc' = "x_append"
    /\ data' = Degraded(urls_list[i])
    /\ fetches' = fetches + 1
    /\ failed' = failed \cup {i}
    /\ UNCHANGED <<driver, live, exc, discVars, campaigns, i, processed,
                   signals, sigAt, canonVars, pagedVars, funVars, enrVars>>

\* lines 236-281: one field is filled, with the value of the page or, when
\* the page lacks the element (find_element raises, no '$' token matches),
\* with the default of the field
DetailField ==
    /\ pc \in FieldPcs
    /\ data' = Put(data, FieldAt(pc), IF PageHas(data["url"], FieldAt(pc))
                                      THEN PageValue(FieldAt(pc))
                                      ELSE FieldDefault(FieldAt(pc)))
    /\ pc' = AfterField(pc)
    /\ UNCHANGED <<driver, live, exc, discVars, campaigns, i, processed,
                   fetches, signals, sigAt, failed, canonVars, pagedVars, funVars, enrVars>>

\* lines 283-285 and 309-313: the record is returned and appended
DetailAppend ==
    /\ pc = "x_append"
    /\ campaigns' = AppendRecord(campaigns, data)
    /\ processed' = processed + 1
    /\ data' = <<>>
    /\ pc' = "x_delay"
    /\ UNCHANGED <<driver, live, exc, discVars, i, fetches, signals, sigAt, failed,
                   canonVars, pagedVars, funVars, enrVars>>

\* line 315: self.random_delay(2, 4)
DetailDelay ==
    /\ pc = "x_delay"
    /\ pc' = "x_next"
    /\ UNCHANGED <<driver, live, exc, discVars, detailVars, canonVars, pagedVars, funVars, enrVars>>

\* A KeyboardInterrupt delivered while a field is looked up (lines 236-281):
\* the bare except clause of the field's try block catches it like any other
\* failure, the field gets its default and the extraction goes on
InterruptSwallowed ==
    /\ pc \in FieldPcs
    /\ signals < MaxSignals
    /\ signals' = signals + 1
    /\ sigAt' = IF signals = 0 THEN i ELSE sigAt
    /\ data' = Put(data, FieldAt(pc), FieldDefault(FieldAt(pc)))
    /\ pc' = AfterField(pc)
    /\ UNCHANGED <<driver, live, exc, discVars, campaigns, i, processed,
                   fetches, failed, canonVars, pagedVars, funVars, enrVars>>

\* A KeyboardInterrupt delivered at lines 225-233 or 283-285 (`except
\* Exception` does not catch it), at line 309 before the append, or during
\* lines 311-315: it reaches `except KeyboardInterrupt` at line 317
InterruptCaught ==
    /\ pc \in {"x_next", "x_get", "x_append", "x_delay"}
    /\ signals < MaxSignals
    /\ signals' = signals + 1
    /\ sigAt' = IF signals = 0 THEN i ELSE sigAt
    /\ campaigns' = OnInterrupt(campaigns)
    /\ data' = <<>>
    /\ pc' = "x_finally"
    /\ UNCHANGED <<driver, live, exc, discVars, i, processed, fetches, failed,
                   canonVars, pagedVars, funVars, enrVars>>

\* lines 319-325: finally: if self.driver: self.driver.quit(); the function
\* returns to main()
DetailFinally ==
    /\ pc = "x_finally"
    /\ live' = IF driver = "set" THEN live - 1 ELSE live
    /\ pc' = "done"
    /\ UNCHANGED <<driver, exc, discVars, detailVars, canonVars, pagedVars, funVars, enrVars>>

----------------------------------------------------------------------------
(* Canonicalisation as a function: the cleaning applied to each visible    *)
(* link, on arbitrary strings                                              *)

CanonAlphabet == {"/", "?", "f", "a"}

Strings(n) == UNION { [1..m -> CanonAlphabet] : m \in 0..n }

QuerySuffix == <<"?", "x", "=", "1">>

\* Clean is applied to u, to u + "?x=1", to u + "/" and to its own result
CanonApply ==
    /\ c_out = <<>>
    /\ c_out' = << Clean(c_u), Clean(c_u \o QuerySuffix), Clean(c_u \o <<"/">>),
                   Clean(Clean(c_u)) >>
    /\ UNCHANGED <<procVars, discVars, detailVars, c_u, pagedVars, funVars, enrVars>>

----------------------------------------------------------------------------
(* Text matching: the regular expressions of the extractors, computed on   *)
(* sequences of characters                                                 *)

Letters == <<"a", "b", "c", "d", "e", "f", "g", "h", "i", "j", "k", "l", "m", "n", "o", "p", "q", "r", "s", "t", "u", "v", "w", "x", "y", "z">>

Capitals == <<"A", "B", "C", "D", "E", "F", "G", "H", "I", "J", "K", "L", "M", "N", "O", "P", "Q", "R", "S", "T", "U", "V", "W", "X", "Y", "Z">>

\* \d
IsDigit(c) == \E k \in 1..10 : DigitChar[k] = c

\* \s
IsSpace(c) == c = " "

\* [A-Za-z]
IsAlpha(c) == \E k \in 1..26 : Letters[k] = c \/ Capitals[k] = c

\* re.IGNORECASE: matching is done on the lowered text
Lower(c) ==
    IF \E k \in 1..26 : Capitals[k] = c
    THEN Letters[CHOOSE k \in 1..26 : Capitals[k] = c]
    ELSE c

LowerAll(s) == [k \in 1..Len(s) |-> Lower(s[k])]

\* \d* at position j: the position after the longest run of digits (0 stays 0)
RECURSIVE SkipDigits(_, _)
SkipDigits(s, j) ==
    IF j >= 1 /\ j <= Len(s) /\ IsDigit(s[j]) THEN SkipDigits(s, j + 1) ELSE j

\* \s* at position j
RECURSIVE SkipSpaces(_, _)
SkipSpaces(s, j) ==
    IF j >= 1 /\ j <= Len(s) /\ IsSpace(s[j]) THEN SkipSpaces(s, j + 1) ELSE j

\* [A-Za-z]* at position j
RECURSIVE SkipAlpha(_, _)
SkipAlpha(s, j) ==
    IF j >= 1 /\ j <= Len(s) /\ IsAlpha(s[j]) THEN SkipAlpha(s, j + 1) ELSE j

\* a literal at position j: the position after it, 0 when it is not there
Lit(s, j, w) ==
    IF j >= 1 /\ j + Len(w) - 1 <= Len(s) /\ SubSeq(s, j, j + Len(w) - 1) = w
    THEN j + Len(w)
    ELSE 0

\* int(digits)
RECURSIVE ToInt(_)
ToInt(ds) ==
    IF ds = <<>> THEN 0
    ELSE ToInt(SubSeq(ds, 1, Len(ds) - 1)) * 10
         + (CHOOSE k \in 1..10 : DigitChar[k] = ds[Len(ds)]) - 1

IsDigits(s) == Len(s) > 0 /\ \A k \in 1..Len(s) : IsDigit(s[k])

----------------------------------------------------------------------------
(* The age of a campaign: extract_days_running                             *)

\* the marker 'Unknown'
UnknownText == <<"U", "n", "k", "n", "o", "w", "n">>

\* r'(\d+)\s*hrs?\s+ago' matches the lowered text s at position p
HoursAt(s, p) ==
    LET d == SkipDigits(s, p)
        h == Lit(s, SkipSpaces(s, d), <<"h", "r">>)
        e == IF Lit(s, h, <<"s">>) # 0 THEN h + 1 ELSE h
        w == SkipSpaces(s, e)
    IN  d > p /\ h # 0 /\ w > e /\ Lit(s, w, <<"a", "g", "o">>) # 0

\* r'(\d+)\s*d(?:ays?)?\s+ago' matches the lowered text s at position p
DaysAt(s, p) ==
    LET d == SkipDigits(s, p)
        a == Lit(s, SkipSpaces(s, d), <<"d">>)
        b == IF Lit(s, a, <<"a", "y">>) # 0
             THEN (IF Lit(s, a + 2, <<"s">>) # 0 THEN a + 3 ELSE a + 2)
             ELSE a
        w == SkipSpaces(s, b)
    IN  d > p /\ a # 0 /\ w > b /\ Lit(s, w, <<"a", "g", "o">>) # 0

\* r'Created\s+([A-Za-z]+)\s+(\d+)(?:st|nd|rd|th)?,?\s+(\d{4})' at position
\* p of the text s: the three groups when it matches
DateAt(s, p) ==
    LET c == Lit(s, p, <<"C", "r", "e", "a", "t", "e", "d">>)
        m1 == SkipSpaces(s, c)
        m2 == SkipAlpha(s, m1)
        d1 == SkipSpaces(s, m2)
        d2 == SkipDigits(s, d1)
        x == IF \E w \in {<<"s", "t">>, <<"n", "d">>, <<"r", "d">>, <<"t", "h">>} : Lit(s, d2, w) # 0
             THEN d2 + 2 ELSE d2
        k == IF Lit(s, x, <<",">>) # 0 THEN x + 1 ELSE x
        y1 == SkipSpaces(s, k)
    IN  IF /\ c # 0 /\ m1 > c /\ m2 > m1 /\ d1 > m2 /\ d2 > d1 /\ y1 > k
           /\ y1 + 3 <= Len(s)
           /\ \A q \in y1..(y1 + 3) : IsDigit(s[q])
        THEN [ok |-> TRUE, month |-> SubSeq(s, m1, m2 - 1),
              day |-> SubSeq(s, d1, d2 - 1), year |-> SubSeq(s, y1, y1 + 3)]
        ELSE [ok |-> FALSE, month |-> <<>>, day |-> <<>>, year |-> <<>>]

\* %B: the month names strptime accepts, lowered
MonthNames ==
    << <<"j", "a", "n", "u", "a", "r", "y">>,
       <<"f", "e", "b", "r", "u", "a", "r", "y">>,
       <<"m", "a", "r", "c", "h">>,
       <<"a", "p", "r", "i", "l">>,
       <<"m", "a", "y">>,
       <<"j", "u", "n", "e">>,
       <<"j", "u", "l", "y">>,
       <<"a", "u", "g", "u", "s", "t">>,
       <<"s", "e", "p", "t", "e", "m", "b", "e", "r">>,
       <<"o", "c", "t", "o", "b", "e", "r">>,
       <<"n", "o", "v", "e", "m", "b", "e", "r">>,
       <<"d", "e", "c", "e", "m", "b", "e", "r">> >>

IsLeap(y) == (y % 4 = 0 /\ y % 100 # 0) \/ y % 400 = 0

DaysInMonth(y, m) ==
    CASE m = 2 -> IF IsLeap(y) THEN 29 ELSE 28
      [] m \in {4, 6, 9, 11} -> 30
      [] OTHER -> 31

RECURSIVE DaysBeforeMonth(_, _)
DaysBeforeMonth(y, m) ==
    IF m = 1 THEN 0 ELSE DaysBeforeMonth(y, m - 1) + DaysInMonth(y, m - 1)

\* the day number of a date (datetime.toordinal), on which the subtraction
\* of two datetimes at midnight is computed
Ordinal(y, m, d) ==
    LET p == y - 1
    IN  p * 365 + (p \div 4) - (p \div 100) + (p \div 400) + DaysBeforeMonth(y, m) + d

\* datetime.strptime(f"{month_name} {day}, {year}", "%B %d, %Y"): the month
\* is a full month name in any case, the day has one or two digits and is a
\* day of that month, the year is not 0; anything else raises ValueError
Strptime(month, day, year) ==
    LET name == LowerAll(month)
        y == ToInt(year)
        d == ToInt(day)
    IN  IF /\ \E m \in 1..12 : MonthNames[m] = name
           /\ Len(day) <= 2
           /\ y >= 1
           /\ d >= 1
           /\ d <= DaysInMonth(y, CHOOSE m \in 1..12 : MonthNames[m] = name)
        THEN [ok |-> TRUE,
              ordinal |-> Ordinal(y, CHOOSE m \in 1..12 : MonthNames[m] = name, d)]
        ELSE [ok |-> FALSE, ordinal |-> 0]

\* today = datetime(2025, 10, 26)
Today == Ordinal(2025, 10, 26)

DateHit(s, p) == DateAt(s, p).ok

\* re.search: the leftmost position at which the date pattern matches
FirstDate(s) ==
    CHOOSE p \in 1..Len(s) : DateHit(s, p) /\ \A q \in 1..(p - 1) : ~DateHit(s, q)

\* re.search: the leftmost position at which the days pattern matches
FirstDays(s) ==
    CHOOSE p \in 1..Len(s) : DaysAt(s, p) /\ \A q \in 1..(p - 1) : ~DaysAt(s, q)

\* lines 201-217: pattern 3 and the fall through to 'Unknown'
AbsoluteDate(text) ==
    IF \E p \in 1..Len(text) : DateHit(text, p)
    THEN LET g == DateAt(text, FirstDate(text))
             created_date == Strptime(g.month, g.day, g.year)
         IN  IF created_date.ok
             THEN (IF Today - created_date.ordinal >= 0
                   THEN Digits(Today - created_date.ordinal)
                   ELSE UnknownText)
             ELSE UnknownText
    ELSE UnknownText

\* lines 196-199: pattern 2, the number as written
RelativeDays(text) ==
    LET p == FirstDays(LowerAll(text))
    IN  SubSeq(text, p, SkipDigits(text, p) - 1)

\* faulty variant of ExtractDaysRunning: the days pattern is tried first
ExtractDaysRunningDaysFirst(text) ==
    IF \E p \in 1..Len(text) : DaysAt(LowerAll(text), p) THEN RelativeDays(text)
    ELSE IF \E p \in 1..Len(text) : HoursAt(LowerAll(text), p) THEN <<"0">>
    ELSE AbsoluteDate(text)

\* extract_days_running, lines 192-217, on the text of the created element
\* (or of the page body)
ExtractDaysRunning(text) ==
    IF \E p \in 1..Len(text) : HoursAt(LowerAll(text), p) THEN <<"0">>
    ELSE IF \E p \in 1..Len(text) : DaysAt(LowerAll(text), p) THEN RelativeDays(text)
    ELSE AbsoluteDate(text)

\* The texts the age is read from are made of phrases, joined by a blank.
\* Each phrase is listed with the rule of the normalizer it is written for
\* (1 relative hours, 2 relative days, 3 'Created Month Day, Year', 0 none)
\* and with the age it states (for a date: the days up to 26 October 2025;
\* Unknown for a date after that day and for a date the calendar lacks).
AgePhrases ==
    << [text |-> <<"3", " ", "h", "r", "s", " ", "a", "g", "o">>, rule |-> 1, value |-> <<"0">>],
       [text |-> <<"1", " ", "H", "R", " ", " ", "a", "g", "o">>, rule |-> 1, value |-> <<"0">>],
       [text |-> <<"5", " ", "d", " ", "a", "g", "o">>, rule |-> 2, value |-> <<"5">>],
       [text |-> <<"1", "2", " ", "D", "a", "y", "s", " ", "a", "g", "o">>, rule |-> 2, value |-> <<"1", "2">>],
       [text |-> <<"C", "r", "e", "a", "t", "e", "d", " ", "O", "c", "t", "o", "b", "e", "r", " ", "2", "0", ",", " ", "2", "0", "2", "5">>, rule |-> 3, value |-> <<"6">>],
       [text |-> <<"C", "r", "e", "a", "t", "e", "d", " ", "M", "a", "r", "c", "h", " ", "1", "s", "t", " ", "2", "0", "2", "4">>, rule |-> 3, value |-> <<"6", "0", "4">>],
       [text |-> <<"C", "r", "e", "a", "t", "e", "d", " ", "N", "o", "v", "e", "m", "b", "e", "r", " ", "5", ",", " ", "2", "0", "2", "5">>, rule |-> 3, value |-> UnknownText],
       [text |-> <<"C", "r", "e", "a", "t", "e", "d", " ", "F", "e", "b", "r", "u", "a", "r", "y", " ", "3", "0", ",", " ", "2", "0", "2", "5">>, rule |-> 3, value |-> UnknownText],
       [text |-> <<"r", "a", "i", "s", "e", "d", " ", "$", "1", ",", "2", "5", "0", " ", "o", "f", " ", "2", ",", "0", "0", "0">>, rule |-> 0, value |-> UnknownText] >>

\* the lists of at most n phrases
PhraseLists(n) == UNION { [1..m -> 1..Len(AgePhrases)] : m \in 0..n }

\* the text of a list of phrases
RECURSIVE AgeText(_)
AgeText(l) ==
    IF l = <<>> THEN <<>>
    ELSE IF Len(l) = 1 THEN AgePhrases[l[1]].text
    ELSE AgePhrases[l[1]].text \o <<" ">> \o AgeText(Tail(l))

\* extract_days_running is applied to the text
AgeApply ==
    /\ f_out = <<>>
    /\ f_out' = << ExtractDaysRunning(AgeText(f_in)) >>
    /\ UNCHANGED <<procVars, discVars, detailVars, canonVars, pagedVars, enrVars, f_in>>

----------------------------------------------------------------------------
(* The amount raised: extract_campaign_details (text of the page) and      *)
(* extract_campaign_data (text of a card)                                  *)

\* [\d,]
IsAmountChar(c) == IsDigit(c) \/ c = ","

\* [\d,]* at position j
RECURSIVE SkipAmount(_, _)
SkipAmount(s, j) ==
    IF j >= 1 /\ j <= Len(s) /\ IsAmountChar(s[j]) THEN SkipAmount(s, j + 1) ELSE j

\* r'\$[\d,]+' matches at position p
DollarAt(s, p) == s[p] = "$" /\ SkipAmount(s, p + 1) > p + 1

\* re.findall(r'\$[\d,]+', s): the matches from position p on, left to right
RECURSIVE FindAmounts(_, _)
FindAmounts(s, p) ==
    IF p > Len(s) THEN <<>>
    ELSE IF DollarAt(s, p)
         THEN <<SubSeq(s, p, SkipAmount(s, p + 1) - 1)>> \o FindAmounts(s, SkipAmount(s, p + 1))
         ELSE FindAmounts(s, p + 1)

\* a.replace(ch, '')
Remove(s, ch) == SelectSeq(s, LAMBDA c : c # ch)

\* max(amounts_numeric)
MaxOf(ns) == CHOOSE n \in { ns[k] : k \in 1..Len(ns) } : \A k \in 1..Len(ns) : ns[k] <= n

\* extract_campaign_details, lines 243-251: the largest '$' amount of the
\* page text as a decimal number; '0' when there is none, and when int()
\* raises on a match without a digit
FinalAmount(page_text) ==
    LET amounts == FindAmounts(page_text, 1)
        digits == [k \in 1..Len(amounts) |-> Remove(Remove(amounts[k], "$"), ",")]
    IN  IF amounts = <<>> THEN <<"0">>
        ELSE IF \E k \in 1..Len(digits) : digits[k] = <<>> THEN <<"0">>
        ELSE Digits(MaxOf([k \in 1..Len(digits) |-> ToInt(digits[k])]))

\* r'\$?([\d,]+)' matches at position p
CardAmountAt(s, p) == IsAmountChar(s[p]) \/ DollarAt(s, p)

\* re.search: the leftmost position at which r'\$?([\d,]+)' matches
FirstCardAmount(s) ==
    CHOOSE p \in 1..Len(s) : CardAmountAt(s, p) /\ \A q \in 1..(p - 1) : ~CardAmountAt(s, q)

\* extract_campaign_data, lines 64-76.  The text is that of the span classed
\* raised/amount when the card has one (has_span), else that of the first
\* text node holding a '$' amount, if any; group 1 of the leftmost match of
\* r'\$?([\d,]+)', its commas removed
CardAmount(text, has_span) ==
    LET found == has_span \/ \E p \in 1..Len(text) : DollarAt(text, p)
    IN  IF found /\ \E p \in 1..Len(text) : CardAmountAt(text, p)
        THEN LET p == FirstCardAmount(text)
                 g == IF text[p] = "$" THEN p + 1 ELSE p
             IN  Remove(SubSeq(text, g, SkipAmount(text, g) - 1), ",")
        ELSE <<"0">>

\* The texts the amount is read from are made of phrases, joined by a blank;
\* each is listed with the digits of its '$' amount (none: <<>>)
AmountPhrases ==
    << [text |-> <<"$", "1", ",", "2", "5", "0", " ", "r", "a", "i", "s", "e", "d">>, amount |-> <<"1", "2", "5", "0">>],
       [text |-> <<"$", "8", "0">>, amount |-> <<"8", "0">>],
       [text |-> <<"$", "0", " ", "r", "a", "i", "s", "e", "d">>, amount |-> <<"0">>],
       [text |-> <<"1", "2", " ", "d", "o", "n", "a", "t", "i", "o", "n", "s">>, amount |-> <<>>],
       [text |-> <<"T", "h", "a", "n", "k", "s", ",", " ", "e", "v", "e", "r", "y", "o", "n", "e">>, amount |-> <<>>],
       [text |-> <<"H", "e", "l", "p", " ", "M", "a", "x", " ", "r", "e", "c", "o", "v", "e", "r">>, amount |-> <<>>] >>

AmountLists(n) == UNION { [1..m -> 1..Len(AmountPhrases)] : m \in 0..n }

RECURSIVE AmountText(_)
AmountText(l) ==
    IF l = <<>> THEN <<>>
    ELSE IF Len(l) = 1 THEN AmountPhrases[l[1]].text
    ELSE AmountPhrases[l[1]].text \o <<" ">> \o AmountText(Tail(l))

\* both extractors are applied to the text: that of the page, that of a card
\* with the text in a span classed raised/amount, that of a card without
\* such a span
AmountApply ==
    /\ f_out = <<>>
    /\ f_out' = << [page |-> FinalAmount(AmountText(f_in)),
                    span |-> CardAmount(AmountText(f_in), TRUE),
                    node |-> CardAmount(AmountText(f_in), FALSE)] >>
    /\ UNCHANGED <<procVars, discVars, detailVars, canonVars, pagedVars, enrVars, f_in>>

----------------------------------------------------------------------------
(* The paginated scraper: GoFundMeScraper.scrape_campaigns                 *)

\* most listing pages (max_pages) of a run of the paginated scraper
MaxPages == 2
\* most cards on one listing page, and number of different campaigns
MaxCards == 2

\* extract_campaign_data: the record of the card of campaign c (url is
\* base_url + href, id the last path segment of the href)
Card(c) ==
    [url |-> UrlOf(c), id |-> Digits(c), image_url |-> "img", title |-> "title",
     amount_raised |-> "1250"]

\* the lists of cards a listing page can yield
PageLists == UNION { [1..m -> 1..MaxCards] : m \in 0..MaxCards }

\* A text of a campaign page: the first len characters of the part src of
\* the document; '' is the text of length 0
Text(src, len) == [src |-> src, len |-> len]

NoText == Text("", 0)

\* t[:n]
Truncate(t, n) == IF t.len > n THEN Text(t.src, n) ELSE t

\* `[:500]`, the longest description taken from an element
DescLimit == 500

\* Values of Python that share a field: an int, or a str
PyInt(n) == <<"int", n>>

PyStr(s) == <<"str", s>>

\* A campaign page, as far as the extractors look at it:
\*   json_ld    the first <script type="application/ld+json">: kind "absent",
\*              "unparsable" (json.loads raises), "list" (a JSON array, on
\*              which .get raises) or "dict", with the description of the
\*              dict ('' when it has none)
\*   story      the first div whose class holds "description" or "story"
\*   og         the content of <meta property="og:description">
\*   created    the text around "Created" / "Started"
\*   published  the content of <meta property="article:published_time">
CampaignPage(json_ld, story, og, created, published) ==
    [json_ld |-> json_ld, story |-> story, og |-> og, created |-> created,
     published |-> published]

JsonLd(kind, desc) == [kind |-> kind, desc |-> desc]

Element(cls, text) == [present |-> TRUE, class |-> cls, text |-> text]

NoElement == [present |-> FALSE, class |-> "", text |-> NoText]

Meta(content) == [present |-> TRUE, content |-> content]

NoMeta == [present |-> FALSE, content |-> <<>>]

Og(text) == [present |-> TRUE, content |-> text]

NoOg == [present |-> FALSE, content |-> NoText]

\* get_campaign_details, lines 96-111: the description of the JSON-LD object
\* when there is one and it is not empty, else the text of the description
\* or story element cut to 500 characters, else ''
PagedDescription(pg) ==
    LET fromJson == IF pg.json_ld.kind = "dict" THEN pg.json_ld.desc ELSE NoText
    IN  IF fromJson.len > 0 THEN fromJson
        ELSE IF pg.story.present THEN Truncate(pg.story.text, DescLimit)
        ELSE NoText

\* datetime.fromisoformat(content.replace('Z', '+00:00')): the day number
\* and the hour of a 'YYYY-MM-DD' or 'YYYY-MM-DDTHH:MM:SS...' text; anything
\* else raises ValueError
FromIso(s) ==
    LET shape == /\ Len(s) >= 10
                 /\ \A k \in {1, 2, 3, 4, 6, 7, 9, 10} : IsDigit(s[k])
                 /\ s[5] = "-" /\ s[8] = "-"
                 /\ (Len(s) > 10 =>
                        /\ Len(s) >= 13 /\ s[11] = "T"
                        /\ IsDigit(s[12]) /\ IsDigit(s[13]))
        y == ToInt(SubSeq(s, 1, 4))
        m == ToInt(SubSeq(s, 6, 7))
        d == ToInt(SubSeq(s, 9, 10))
        h == IF Len(s) > 10 THEN ToInt(SubSeq(s, 12, 13)) ELSE 0
    IN  IF shape /\ y >= 1 /\ m \in 1..12 /\ d >= 1 /\ d <= DaysInMonth(y, m) /\ h < 24
        THEN [ok |-> TRUE, day |-> Ordinal(y, m, d), hour |-> h]
        ELSE [ok |-> FALSE, day |-> 0, hour |-> 0]

\* get_campaign_details, lines 124-135: (datetime.now() - created).days, the
\* whole days (rounded down) from the published time to now, as an int;
\* 'Unknown' without the meta tag or when its content does not parse
PagedDaysRunning(published, now) ==
    IF ~published.present THEN PyStr("Unknown")
    ELSE LET created == FromIso(published.content)
         IN  IF created.ok
             THEN PyInt(((now.day * 24 + now.hour) - (created.day * 24 + created.hour)) \div 24)
             ELSE PyStr("Unknown")

\* get_campaign_details, lines 94-137, on a page that was fetched at time now
GetCampaignDetails(pg, now) ==
    [description |-> PagedDescription(pg),
     created_date |-> IF pg.created.present THEN pg.created.text ELSE "Unknown",
     days_running |-> PagedDaysRunning(pg.published, now)]

\* datetime.now() of the run: noon of 26 October 2025
RunNow == [day |-> Ordinal(2025, 10, 26), hour |-> 12]

\* a page with every part, published six days before the run
TypicalPage ==
    CampaignPage(JsonLd("dict", Text("json", 16)),
                 Element("o-campaign-description", Text("story", 30)),
                 Og(Text("og", 40)),
                 [present |-> TRUE, text |-> "Created 6 d ago"],
                 Meta(<<"2", "0", "2", "5", "-", "1", "0", "-", "2", "0", "T", "0", "8", ":", "0", "0", ":", "0", "0", "Z">>))

\* the campaign pages of the site: the typical one, one without metadata and
\* with a long story, one published after the run started (a scheduled
\* campaign, or a clock that is behind), one with a published time that is
\* no timestamp
DetailPages ==
    { TypicalPage,
      CampaignPage(JsonLd("absent", NoText), Element("story", Text("story", 600)),
                   NoOg, [present |-> FALSE, text |-> ""], NoMeta),
      CampaignPage(JsonLd("dict", Text("json", 600)), NoElement, NoOg,
                   [present |-> TRUE, text |-> "Created today"],
                   Meta(<<"2", "0", "2", "5", "-", "1", "1", "-", "0", "5", "T", "0", "0", ":", "0", "0", ":", "0", "0", "Z">>)),
      CampaignPage(JsonLd("unparsable", NoText), NoElement, NoOg,
                   [present |-> TRUE, text |-> "Started yesterday"],
                   Meta(<<"y", "e", "s", "t", "e", "r", "d", "a", "y">>)) }

\* `len(description) > 20`
MinLength == 20

\* the CSS selectors of extract_campaign_details, in the order tried
DescSelectors == <<"o-campaign-description", "campaign-description", "og:description">>

\* find_element with selector k: the text of the element found (elem.text,
\* or the content attribute of the meta tag); no element raises
FindDescription(pg, k) ==
    IF k = 3 THEN [ok |-> pg.og.present, text |-> pg.og.content]
    ELSE IF /\ pg.story.present
            /\ \/ pg.story.class = DescSelectors[1]
               \/ (k = 2 /\ pg.story.class = DescSelectors[2])
         THEN [ok |-> TRUE, text |-> pg.story.text]
         ELSE [ok |-> FALSE, text |-> NoText]

\* lines 261-274: the loop over the selectors from k on; it stops at the
\* first text longer than 20 characters and else keeps the last text found
RECURSIVE DescriptionLoop(_, _, _)
DescriptionLoop(pg, k, description) ==
    IF k > Len(DescSelectors) THEN description
    ELSE LET found == FindDescription(pg, k)
         IN  IF ~found.ok THEN DescriptionLoop(pg, k + 1, description)
             ELSE IF found.text.len > MinLength THEN found.text
             ELSE DescriptionLoop(pg, k + 1, found.text)

\* extract_campaign_details, lines 254-278: description[:500], '' when empty
FinalDescription(pg) == Truncate(DescriptionLoop(pg, 1, NoText), DescLimit)

\* the pages the description is taken from: every kind of JSON-LD block with
\* every kind of description element, with and without og:description
DescPages ==
    { CampaignPage(j, s, o, [present |-> FALSE, text |-> ""], NoMeta) :
        j \in { JsonLd("absent", NoText), JsonLd("unparsable", NoText),
                JsonLd("list", NoText), JsonLd("dict", NoText),
                JsonLd("dict", Text("json", 16)), JsonLd("dict", Text("json", 600)) },
        s \in { NoElement,
                Element("o-campaign-description", Text("story", 30)),
                Element("o-campaign-description", Text("story", 600)),
                Element("campaign-description", Text("story", 10)),
                Element("story", Text("story", 30)) },
        o \in { NoOg, Og(Text("og", 40)) } }

\* the description is extracted from the page by both scrapers
DescApply ==
    /\ f_out = <<>>
    /\ f_out' = << [paged |-> PagedDescription(f_in), final |-> FinalDescription(f_in)] >>
    /\ UNCHANGED <<procVars, discVars, detailVars, canonVars, pagedVars, enrVars, f_in>>

\* get_campaign_details, lines 94-137: the details of a page that was fetched
DetailsFetched == GetCampaignDetails(TypicalPage, RunNow)

\* get_campaign_details, lines 139-141: `return {}` on a RequestException
DetailsFailed == <<>>

\* what get_campaign_details can return for a card: the details of one of
\* the pages, or {} when the request failed
DetailsOutcomes == { GetCampaignDetails(pg, RunNow) : pg \in DetailPages } \cup { DetailsFailed }

\* campaign.update(details)
Update(r, d) == [x \in (DOMAIN r) \cup (DOMAIN d) |-> IF x \in DOMAIN d THEN d[x] ELSE r[x]]

\* faulty variant of PagedCondition: the page limit is not tested
PagedConditionNoPageLimit == total_scraped < p_max

\* line 184: `while total_scraped < max_campaigns and page <= max_pages`
PagedCondition == total_scraped < p_max /\ page <= p_max_pages

\* lines 181-182: scrape_campaigns starts
PagedStart ==
    /\ p_pc = "idle"
    /\ p_pc' = "loop"
    /\ page' = 1
    /\ total_scraped' = 0
    /\ UNCHANGED <<procVars, discVars, detailVars, canonVars, funVars, enrVars, p_max, p_max_pages,
                   page_campaigns, p_campaigns, p_failed, p_requested, p_yield, p_details>>

\* lines 184-190: the next listing page is scraped (cards = <<>> also stands
\* for a RequestException, which scrape_category_page turns into []); an
\* empty page ends the loop
PagedFetchPage(cards) ==
    /\ p_pc = "loop"
    /\ PagedCondition
    /\ p_requested' = Append(p_requested, page)
    /\ p_yield' = Append(p_yield, Len(cards))
    /\ page_campaigns' = [j \in 1..Len(cards) |-> Card(cards[j])]
    /\ p_pc' = IF cards = <<>> THEN "done" ELSE "cards"
    /\ UNCHANGED <<procVars, discVars, detailVars, canonVars, funVars, enrVars, p_max, p_max_pages,
                   page, total_scraped, p_campaigns, p_failed, p_details>>

\* line 184: the loop condition is false
PagedLoopEnd ==
    /\ p_pc = "loop"
    /\ ~PagedCondition
    /\ p_pc' = "done"
    /\ UNCHANGED <<procVars, discVars, detailVars, canonVars, funVars, enrVars, p_max, p_max_pages,
                   page, total_scraped, page_campaigns, p_campaigns, p_failed,
                   p_requested, p_yield, p_details>>

\* lines 193-203: the details of the next card are fetched and merged into
\* its record, the record is appended
PagedDetail(details) ==
    /\ p_pc = "cards"
    /\ page_campaigns # <<>>
    /\ total_scraped < p_max
    /\ p_campaigns' = Append(p_campaigns, Update(Head(page_campaigns), details))
    /\ p_failed' = IF details = DetailsFailed
                   THEN p_failed \cup {Len(p_campaigns) + 1} ELSE p_failed
    /\ total_scraped' = total_scraped + 1
    /\ p_details' = p_details + 1
    /\ page_campaigns' = Tail(page_campaigns)
    /\ UNCHANGED <<procVars, discVars, detailVars, canonVars, funVars, enrVars, p_pc, p_max,
                   p_max_pages, page, p_requested, p_yield>>

\* lines 193-195 and 205-206: the cards of the page are used up, or the
\* target is reached (break); page += 1
PagedPageDone ==
    /\ p_pc = "cards"
    /\ (page_campaigns = <<>> \/ total_scraped >= p_max)
    /\ page' = page + 1
    /\ page_campaigns' = <<>>
    /\ p_pc' = "loop"
    /\ UNCHANGED <<procVars, discVars, detailVars, canonVars, funVars, enrVars, p_max, p_max_pages,
                   total_scraped, p_campaigns, p_failed, p_requested, p_yield, p_details>>

----------------------------------------------------------------------------
(* The Enrichment Adapter: ImageAnalyzer.process_campaigns                 *)

\* most records handed to process_campaigns
MaxRecords == 2

\* the image_url values of the records: none, two image addresses, an
\* address of another scheme, a site-relative path, and a text that begins
\* with "http" without being an address
ImageUrls ==
    { <<>>, <<"h", "t", "t", "p", ":", "/", "/", "a">>, <<"h", "t", "t", "p", "s", ":", "/", "/", "b">>, <<"f", "t", "p", ":", "/", "/", "c">>, <<"/", "d">>, <<"h", "t", "t", "p", "x">> }

\* image_url.startswith('http')
StartsWithHttp(image_url) == Lit(image_url, 1, <<"h", "t", "t", "p">>) # 0

\* the services an ImageAnalyzer is constructed with
Services == {"google", "azure", "aws"}

\* lines 186 and 156-159: the result stored without a call of the service
NotAnalyzed(error) == [success |-> FALSE, error |-> error]

\* analyze_image_google, lines 126-148: the result of a call of the service,
\* the success shape or, when the call raised, the failure shape
GoogleResult(ok) ==
    IF ok THEN [success |-> TRUE, error |-> "None", top_labels |-> <<"dog">>]
    ELSE [success |-> FALSE, error |-> "str(e)", top_labels |-> <<>>]

\* the record of the loop with its image_analysis set
Enrich(campaign, analysis) ==
    [x \in (DOMAIN campaign) \cup {"image_analysis"} |->
        IF x = "image_analysis" THEN analysis ELSE campaign[x]]

\* the record the loop of process_campaigns is at
Current == e_campaigns[Len(enriched_campaigns) + 1]

\* lines 174-179: process_campaigns starts
EnrichStart ==
    /\ e_pc = "idle"
    /\ e_pc' = "loop"
    /\ enriched_campaigns' = <<>>
    /\ UNCHANGED <<procVars, discVars, detailVars, canonVars, pagedVars, funVars,
                   service, e_campaigns, e_calls>>

\* lines 182-189: the record has no image_url (the key is missing or the
\* value is empty): it is marked and appended without a call
EnrichSkip ==
    /\ e_pc = "loop"
    /\ Len(enriched_campaigns) < Len(e_campaigns)
    /\ Current.image_url = <<>>
    /\ enriched_campaigns' = Append(enriched_campaigns, Enrich(Current, NotAnalyzed("No image URL")))
    /\ UNCHANGED <<procVars, discVars, detailVars, canonVars, pagedVars, funVars,
                   e_pc, service, e_campaigns, e_calls>>

\* lines 194-206 with analyze_image returning at lines 155-159: the
\* image_url does not begin with 'http'
EnrichInvalid ==
    /\ e_pc = "loop"
    /\ Len(enriched_campaigns) < Len(e_campaigns)
    /\ Current.image_url # <<>>
    /\ ~StartsWithHttp(Current.image_url)
    /\ enriched_campaigns' = Append(enriched_campaigns, Enrich(Current, NotAnalyzed("Invalid image URL")))
    /\ UNCHANGED <<procVars, discVars, detailVars, canonVars, pagedVars, funVars,
                   e_pc, service, e_campaigns, e_calls>>

\* lines 194-210 with analyze_image calling analyze_image_google (line 162):
\* the image URL is sent to the service, the result is stored
EnrichClassify(ok) ==
    /\ e_pc = "loop"
    /\ Len(enriched_campaigns) < Len(e_campaigns)
    /\ StartsWithHttp(Current.image_url)
    /\ service = "google"
    /\ e_calls' = Append(e_calls, Current.image_url)
    /\ enriched_campaigns' = Append(enriched_campaigns, Enrich(Current, GoogleResult(ok)))
    /\ UNCHANGED <<procVars, discVars, detailVars, canonVars, pagedVars, funVars,
                   e_pc, service, e_campaigns>>

\* lines 194-197 with another service: for 'azure' line 164 raises
\* AttributeError (the class has no method analyze_image_azure), for any
\* other name analyze_image returns None and analysis['success'] at line 197
\* raises TypeError; the exception leaves process_campaigns
EnrichUnsupported ==
    /\ e_pc = "loop"
    /\ Len(enriched_campaigns) < Len(e_campaigns)
    /\ StartsWithHttp(Current.image_url)
    /\ service # "google"
    /\ e_pc' = "raised"
    /\ UNCHANGED <<procVars, discVars, detailVars, canonVars, pagedVars, funVars,
                   service, e_campaigns, enriched_campaigns, e_calls>>

\* lines 212-219: the loop is over, the list is returned
EnrichReturn ==
    /\ e_pc = "loop"
    /\ Len(enriched_campaigns) = Len(e_campaigns)
    /\ e_pc' = "returned"
    /\ UNCHANGED <<procVars, discVars, detailVars, canonVars, pagedVars, funVars,
                   service, e_campaigns, enriched_campaigns, e_calls>>

\* the record lists handed to process_campaigns
RecordLists(n) == UNION { [1..m -> [image_url : ImageUrls]] : m \in 0..n }

\* ImageAnalyzer.__init__ with a service, and the records handed to
\* process_campaigns
EnrichInit(services, inputs) ==
    /\ e_pc = "idle"
    /\ service \in services
    /\ e_campaigns \in inputs
    /\ enriched_campaigns = <<>>
    /\ e_calls = <<>>

\* no enrichment is running
EnrichIdle == EnrichInit({"google"}, {<<>>})

----------------------------------------------------------------------------
(* Initial states and specifications                                       *)

\* GoFundMeFinalScraper.__init__ and the start of main() with a target
FinalInit(targets) ==
    /\ pc = "start"
    /\ max_campaigns \in targets
    /\ campaign_urls = {}
    /\ attempts = 0
    /\ no_new_count = 0
    /\ driver = "None"
    /\ live = 0
    /\ exc = "none"
    /\ urls_list = <<>>
    /\ reads = 0
    /\ recent = <<>>
    /\ known = 0
    /\ outcome = "Expanding"
    /\ rounds = 0
    /\ foundAt = <<>>
    /\ repeats = {}
    /\ revealed = 0
    /\ button = "none"
    /\ reveal_how = "none"
    /\ campaigns = <<>>
    /\ i = 0
    /\ data = <<>>
    /\ processed = 0
    /\ fetches = 0
    /\ signals = 0
    /\ sigAt = 0
    /\ failed = {}

CanonIdle ==
    /\ c_u = <<>>
    /\ c_out = <<>>

\* no extractor is under check
FunIdle ==
    /\ f_in = <<>>
    /\ f_out = <<>>

\* GoFundMeScraper.__init__ and the parameters of scrape_campaigns
PagedInit(targets, limits) ==
    /\ p_pc = "idle"
    /\ p_max \in targets
    /\ p_max_pages \in limits
    /\ page = 0
    /\ total_scraped = 0
    /\ page_campaigns = <<>>
    /\ p_campaigns = <<>>
    /\ p_failed = {}
    /\ p_requested = <<>>
    /\ p_yield = <<>>
    /\ p_details = 0

vars == <<pc, max_campaigns, campaign_urls, attempts, no_new_count, driver, live,
          exc, urls_list, reads, recent, known, outcome, rounds, foundAt, repeats,
          revealed, button, reveal_how,
          campaigns, i, data, processed, fetches, signals, sigAt, failed, c_u, c_out,
          p_pc, p_max, p_max_pages, page, total_scraped, page_campaigns,
          p_campaigns, p_failed, p_requested, p_yield, p_details, f_in, f_out, e_pc, service,
          e_campaigns, enriched_campaigns, e_calls>>

(* The pipeline of main(): Discovery Loop, then Detail Loop                *)

Init == FinalInit(0..MaxTarget) /\ CanonIdle /\ PagedInit({0}, {0}) /\ FunIdle /\ EnrichIdle

Next ==
    \/ DiscoverSetup
    \/ SetupFails
    \/ DiscoverEnterTry
    \/ DiscoverLoad
    \/ DiscoverLoopEnd
    \/ \E k \in 0..MaxNew, D \in (SUBSET Decos) \ {{}}, old \in {{}, 1..known} :
          DiscoverRead(k, D, old)
    \/ \E b \in Buttons : DiscoverReveal(b)
    \/ \E e \in {"error", "interrupt"} : DiscoverRaise(e)
    \/ DiscoverFinally
    \/ DiscoverReturn
    \/ MainAfterDiscovery
    \/ DetailSetup
    \/ DetailSetupFails
    \/ DetailEnterTry
    \/ \E e \in {"error", "interrupt"} : RaiseOutsideTry(e)
    \/ DetailNext
    \/ DetailGet
    \/ DetailGetFails
    \/ DetailField
    \/ DetailAppend
    \/ DetailDelay
    \/ InterruptSwallowed
    \/ InterruptCaught
    \/ DetailFinally

Spec == Init /\ [][Next]_vars

(* Long discovery runs: collect_all_urls alone, with a target too far to   *)
(* reach within the attempts allowed, and a listing that shows at most one *)
(* campaign more per read, each under its plain href                       *)

InitBudget == FinalInit({BigTarget}) /\ CanonIdle /\ PagedInit({0}, {0}) /\ FunIdle /\ EnrichIdle

NextBudget ==
    \/ DiscoverSetup
    \/ SetupFails
    \/ DiscoverEnterTry
    \/ DiscoverLoad
    \/ DiscoverLoopEnd
    \/ \E k \in 0..1 : DiscoverRead(k, {<<>>}, {})
    \/ \E b \in {"show_more", "missing"} : DiscoverReveal(b)
    \/ \E e \in {"error", "interrupt"} : DiscoverRaise(e)
    \/ DiscoverFinally

SpecBudget == InitBudget /\ [][NextBudget]_vars

(* Canonicalisation of every string up to MaxLen characters                *)

InitCanon ==
    /\ FinalInit({0})
    /\ PagedInit({0}, {0})
    /\ c_u \in Strings(MaxLen)
    /\ c_out = <<>>
    /\ FunIdle
    /\ EnrichIdle

NextCanon == CanonApply

SpecCanon == InitCanon /\ [][NextCanon]_vars

(* The age normalizer on every text of at most MaxPhrases phrases          *)

InitAge ==
    /\ FinalInit({0})
    /\ CanonIdle
    /\ PagedInit({0}, {0})
    /\ f_in \in PhraseLists(MaxPhrases)
    /\ f_out = <<>>
    /\ EnrichIdle

NextAge == AgeApply

SpecAge == InitAge /\ [][NextAge]_vars

(* The amount extractors on every text of at most MaxPhrases phrases       *)

InitAmount ==
    /\ FinalInit({0})
    /\ CanonIdle
    /\ PagedInit({0}, {0})
    /\ f_in \in AmountLists(MaxPhrases)
    /\ f_out = <<>>
    /\ EnrichIdle

NextAmount == AmountApply

SpecAmount == InitAmount /\ [][NextAmount]_vars

(* The description extractors on every page of DescPages                   *)

InitDesc ==
    /\ FinalInit({0})
    /\ CanonIdle
    /\ PagedInit({0}, {0})
    /\ f_in \in DescPages
    /\ f_out = <<>>
    /\ EnrichIdle

NextDesc == DescApply

SpecDesc == InitDesc /\ [][NextDesc]_vars

(* The Enrichment Adapter on every list of at most MaxRecords records      *)

InitEnrich ==
    /\ FinalInit({0})
    /\ CanonIdle
    /\ PagedInit({0}, {0})
    /\ FunIdle
    /\ EnrichInit(Services, RecordLists(MaxRecords))

NextEnrich ==
    \/ EnrichStart
    \/ EnrichSkip
    \/ EnrichInvalid
    \/ \E ok \in BOOLEAN : EnrichClassify(ok)
    \/ EnrichUnsupported
    \/ EnrichReturn

SpecEnrich == InitEnrich /\ [][NextEnrich]_vars

(* The paginated scraper, for every target and page limit                  *)

InitPaged == FinalInit({0}) /\ CanonIdle /\ PagedInit(0..MaxTarget, 0..MaxPages) /\ FunIdle /\ EnrichIdle

NextPaged ==
    \/ PagedStart
    \/ \E cards \in PageLists : PagedFetchPage(cards)
    \/ PagedLoopEnd
    \/ \E details \in DetailsOutcomes : PagedDetail(details)
    \/ PagedPageDone

SpecPaged == InitPaged /\ [][NextPaged]_vars

\* scrape_campaigns is one thread of control whose steps all return: the
\* requests carry timeout=15 (lines 90 and 149) and random_delay sleeps for
\* a bounded time (line 36), so a step that can be taken is taken
SpecPagedFair == SpecPaged /\ WF_vars(NextPaged)

----------------------------------------------------------------------------
(* Properties                                                              *)

Last(s) == s[Len(s)]
Range(s) == { s[j] : j \in 1..Len(s) }
LoopLeft == pc \in {"d_finally", "d_return", "d_returned"}
ThreeStrikes == Len(recent) = 3 /\ \A j \in 1..3 : recent[j] = 0

\* C1, as stated: the Frontier never holds more than the target N, and holds
\* exactly N after an iteration that saw more than N new URLs.
C1_FrontierWithinTarget ==
    /\ Cardinality(campaign_urls) <= max_campaigns
    /\ (reads > 0 /\ Last(recent) > max_campaigns
            => Cardinality(campaign_urls) = max_campaigns)

\* C1, amended: an iteration that sees more than N new URLs inserts them all
\* (the Frontier then holds more than N), ends the loop as Capped in that
\* same iteration, and the list returned holds exactly N URLs; the returned
\* list never holds more than N URLs and holds min(N, size of the Frontier).
C1_CapOnReturnedList ==
    /\ Len(urls_list) <= max_campaigns
    /\ (pc = "d_returned"
            => Len(urls_list) = Min(max_campaigns, Cardinality(campaign_urls)))
    /\ (reads > 0 /\ Last(recent) > max_campaigns
            => /\ LoopLeft
               /\ outcome = "Capped"
               /\ Cardinality(campaign_urls) >= Last(recent)
               /\ (pc = "d_returned" => Len(urls_list) = max_campaigns))

C1_Witness ==
    /\ pc = "d_returned"
    /\ max_campaigns >= 1
    /\ Last(recent) > max_campaigns
    /\ Cardinality(campaign_urls) > max_campaigns
    /\ Len(urls_list) = max_campaigns

\* C2: once three consecutive reads have each found no new URL, the loop has
\* stopped with the outcome Exhausted (so no fourth read follows), whatever
\* the size of the Frontier.
C2_StagnationStops ==
    ThreeStrikes => LoopLeft /\ outcome = "Exhausted" /\ no_new_count = StrikeLimit

C2_Witness ==
    /\ ThreeStrikes
    /\ outcome = "Exhausted"
    /\ campaign_urls # {}
    /\ pc = "d_return"

\* C3, as stated: no execution of the Discovery Loop reads the listing more
\* than 100 times.
C3_AtMostHundredReads == reads <= AttemptLimit

\* C4, as stated: the returned list is in insertion order (a URL found by an
\* earlier read comes first) and leaves no URL out that was found by an
\* earlier read than one it holds.
C4_SnapshotInsertionOrder ==
    pc = "d_returned" =>
        /\ Len(urls_list) <= max_campaigns
        /\ \A a, b \in 1..Len(urls_list) :
              a < b => foundAt[urls_list[a]] <= foundAt[urls_list[b]]
        /\ \A u \in campaign_urls \ Range(urls_list) :
              \A a \in 1..Len(urls_list) : foundAt[urls_list[a]] <= foundAt[u]

C6_CancelAtUrlBoundary ==
    signals > 0 =>
        /\ fetches <= sigAt
        /\ (pc = "done" => Len(campaigns) >= sigAt)

\* C7, as stated: at most one driver is open at any time, and none is open
\* once a loop has returned or let an exception out.
C7_DriverClosedOnExit ==
    /\ live <= 1
    /\ (pc \in {"d_return", "d_returned", "x_start", "done", "crashed"} => live = 0)

\* the records of the URLs whose fetch failed, in the Detail Loop of
\* GoFundMeFinalScraper: identity set, every content field at its default
FinalScraperDegrades ==
    \A j \in failed :
        j <= Len(campaigns) =>
            campaigns[j] = [url |-> urls_list[j], image_url |-> "",
                            amount_raised |-> "0", description |-> "",
                            days_running |-> "Unknown"]

\* C8, as stated: a URL whose fetch failed still yields a record with its url
\* set and image_url '', amount_raised '0', description '', days_running
\* 'Unknown', in the Detail Loop of either scraper.
C8_FailedUrlYieldsDefaults ==
    /\ FinalScraperDegrades
    /\ \A j \in p_failed :
          /\ Fields \subseteq DOMAIN p_campaigns[j]
          /\ p_campaigns[j]["image_url"] = ""
          /\ p_campaigns[j]["amount_raised"] = "0"
          /\ p_campaigns[j]["description"] = ""
          /\ p_campaigns[j]["days_running"] = "Unknown"

\* C9: cleaning u, u + "?x=1" and u + "/" gives the same URL, and cleaning a
\* cleaned URL changes nothing.
C9_CanonStable ==
    Len(c_out) = 4 =>
        /\ c_out[2] = c_out[1]
        /\ c_out[3] = c_out[1]
        /\ c_out[4] = c_out[1]

C9_Witness ==
    /\ Len(c_out) = 4
    /\ HasCampaignPath(c_u)
    /\ c_out[1] # c_u
    /\ c_out[1] # <<>>

\* C10: during the Discovery Loop the Frontier holds exactly one URL per
\* campaign the listing has shown, however often and in whatever decoration
\* the campaign was linked; the returned list holds no URL twice.
C10_FrontierDedup ==
    /\ pc \in {"d_loop", "d_reveal", "d_finally", "d_return", "d_returned"}
          => /\ Cardinality(campaign_urls) = known
             /\ campaign_urls = { UrlOf(c) : c \in 1..known }
    /\ \A a, b \in 1..Len(urls_list) : urls_list[a] = urls_list[b] => a = b

C10_Witness ==
    /\ pc = "d_returned"
    /\ repeats = {"same_read", "later_read"}
    /\ known >= 2
    /\ Cardinality(campaign_urls) = known
    /\ Len(urls_list) = 2

\* C11: no step removes a URL from the Frontier, in the Discovery Loop and in
\* the Detail Loop that follows it: the Frontier after a step holds every URL
\* it held before, and is not smaller.
C11_FrontierMonotone ==
    [][/\ campaign_urls \subseteq campaign_urls'
       /\ Cardinality(campaign_urls') >= Cardinality(campaign_urls)]_vars

C11_Witness ==
    /\ pc = "done"
    /\ Len(campaigns) >= 1
    /\ outcome = "Capped"
    /\ Cardinality(campaign_urls) > Len(urls_list)
    /\ \A j \in 1..Len(urls_list) : urls_list[j] \in campaign_urls


\* the first phrase of a list written for rule r, 0 when there is none
FirstOfRule(l, r) ==
    IF \E j \in 1..Len(l) : AgePhrases[l[j]].rule = r
    THEN CHOOSE j \in 1..Len(l) :
            /\ AgePhrases[l[j]].rule = r
            /\ \A q \in 1..(j - 1) : AgePhrases[l[q]].rule # r
    ELSE 0

\* C12: the age of a text is 0 when it holds a relative-hours phrase; else
\* the number of its first relative-days phrase, as written; else the age of
\* its first 'Created Month Day, Year' phrase; else Unknown: the order of
\* the rules decides, not the order of the phrases in the text.
C12_AgeRulePrecedence ==
    f_out # <<>> =>
        f_out[1] = IF FirstOfRule(f_in, 1) # 0 THEN <<"0">>
                   ELSE IF FirstOfRule(f_in, 2) # 0
                        THEN AgePhrases[f_in[FirstOfRule(f_in, 2)]].value
                   ELSE IF FirstOfRule(f_in, 3) # 0
                        THEN AgePhrases[f_in[FirstOfRule(f_in, 3)]].value
                   ELSE UnknownText

C12_Witness ==
    /\ f_out = << <<"0">> >>
    /\ Len(f_in) = 3
    /\ AgePhrases[f_in[1]].rule = 3
    /\ AgePhrases[f_in[1]].value = <<"6">>
    /\ AgePhrases[f_in[2]].rule = 2
    /\ AgePhrases[f_in[3]].rule = 1


\* the phrase of AgePhrases with a date after the reference day
FutureDatePhrase ==
    CHOOSE k \in 1..Len(AgePhrases) : AgePhrases[k].text = <<"C", "r", "e", "a", "t", "e", "d", " ", "N", "o", "v", "e", "m", "b", "e", "r", " ", "5", ",", " ", "2", "0", "2", "5">>

\* the age computed by extract_days_running of GoFundMeFinalScraper is a
\* string of digits or 'Unknown'; a date after the reference day gives
\* 'Unknown'
FinalAgeInRange ==
    f_out # <<>> =>
        /\ IsDigits(f_out[1]) \/ f_out[1] = UnknownText
        /\ ((/\ FirstOfRule(f_in, 1) = 0
             /\ FirstOfRule(f_in, 2) = 0
             /\ FirstOfRule(f_in, 3) # 0
             /\ f_in[FirstOfRule(f_in, 3)] = FutureDatePhrase)
                => f_out[1] = UnknownText)

\* C13, as stated: days_running of every record of either scraper is a number
\* that is not negative, or Unknown.
C13_DaysRunningNotNegative ==
    /\ FinalAgeInRange
    /\ \A j \in 1..Len(p_campaigns) :
          "days_running" \in DOMAIN p_campaigns[j] =>
              \/ p_campaigns[j]["days_running"][1] = "str"
              \/ p_campaigns[j]["days_running"][2] >= 0


\* the phrases of a list that hold a '$' amount
DollarPhrases(l) == { j \in 1..Len(l) : AmountPhrases[l[j]].amount # <<>> }

\* what C14 asks of an extracted amount: digits only and not empty; the
\* digits of the '$' amount when the text holds exactly one; "0" when it
\* holds none
AmountAsStated(l, amount) ==
    /\ IsDigits(amount)
    /\ \A j \in DollarPhrases(l) :
          DollarPhrases(l) = {j} => amount = AmountPhrases[l[j]].amount
    /\ (DollarPhrases(l) = {} => amount = <<"0">>)

\* the amount extract_campaign_details of GoFundMeFinalScraper reads from
\* the page text has the shape C14 states
FinalAmountShape == f_out # <<>> => AmountAsStated(f_in, f_out[1].page)

\* C14, as stated: for every card or page text amount_raised is a non-empty
\* string of digits, the digits of the '$' amount with the commas removed,
\* and "0" when the text has no '$' amount.
C14_AmountShape ==
    f_out # <<>> =>
        /\ AmountAsStated(f_in, f_out[1].page)
        /\ AmountAsStated(f_in, f_out[1].span)
        /\ AmountAsStated(f_in, f_out[1].node)


\* what C15 asks of the description taken from a page
DescriptionAsStated(pg, description) ==
    /\ (pg.json_ld.kind = "dict" /\ pg.json_ld.desc # NoText
            => description = pg.json_ld.desc)
    /\ (~(pg.json_ld.kind = "dict" /\ pg.json_ld.desc # NoText) /\ pg.story.present
            => /\ description.src = pg.story.text.src
               /\ description.len = Min(pg.story.text.len, DescLimit))
    /\ (~(pg.json_ld.kind = "dict" /\ pg.json_ld.desc # NoText) /\ ~pg.story.present
            => description = NoText)

\* get_campaign_details of the paginated scraper takes the description in
\* the order C15 states
PagedDescriptionOrder == f_out # <<>> => DescriptionAsStated(f_in, f_out[1].paged)

\* C15, as stated: the description is that of the JSON metadata, as written,
\* when the metadata holds one; else that of the description/story element,
\* cut to 500 characters; else empty, in both scrapers.
C15_DescriptionSourceOrder ==
    f_out # <<>> =>
        /\ DescriptionAsStated(f_in, f_out[1].paged)
        /\ DescriptionAsStated(f_in, f_out[1].final)


\* an address of the form http://... or https://...
WellFormedHttp(u) ==
    \/ Lit(u, 1, <<"h", "t", "t", "p", ":", "/", "/">>) # 0 /\ Len(u) > 7
    \/ Lit(u, 1, <<"h", "t", "t", "p", "s", ":", "/", "/">>) # 0 /\ Len(u) > 8

\* C16, as stated: an image_url that is empty or no well-formed http(s)
\* address is never sent to the classifier, and its record gets an
\* image_analysis with success = false and an error naming the image URL.
C16_NoCallWithoutImageUrl ==
    /\ \A k \in 1..Len(e_calls) : WellFormedHttp(e_calls[k])
    /\ \A j \in 1..Len(enriched_campaigns) :
          ~WellFormedHttp(e_campaigns[j].image_url) =>
              /\ enriched_campaigns[j].image_analysis.success = FALSE
              /\ enriched_campaigns[j].image_analysis.error
                    \in {"No image URL", "Invalid image URL"}

\* C17, as stated: process_campaigns never raises, and what it returns holds
\* every input record once, in input order, with an image_analysis whose
\* success is a boolean.
C17_FailuresStored ==
    /\ e_pc # "raised"
    /\ e_pc = "returned" =>
          /\ Len(enriched_campaigns) = Len(e_campaigns)
          /\ \A j \in 1..Len(e_campaigns) :
                /\ enriched_campaigns[j].image_url = e_campaigns[j].image_url
                /\ enriched_campaigns[j].image_analysis.success \in BOOLEAN


\* the records of the Detail Loop of GoFundMeFinalScraper, run once by
\* main() on the list returned by collect_all_urls, have different urls
FinalRecordsUnique ==
    \A a, b \in 1..Len(campaigns) : campaigns[a]["url"] = campaigns[b]["url"] => a = b

\* C18, as stated: no two records of the output of either scraper have the
\* same url.
C18_RecordUrlsUnique ==
    /\ FinalRecordsUnique
    /\ \A a, b \in 1..Len(p_campaigns) :
          p_campaigns[a]["url"] = p_campaigns[b]["url"] => a = b


\* the field set of an output record
RecordFields ==
    {"id", "title", "url", "image_url", "amount_raised", "description",
     "created_date", "days_running"}

\* C19, as stated: every record of the output, on the success path and on
\* every degraded path, has exactly the fields of RecordFields, so no two
\* records differ in their fields.
C19_StableFieldSet ==
    /\ \A j \in 1..Len(campaigns) : DOMAIN campaigns[j] = RecordFields
    /\ \A j \in 1..Len(p_campaigns) : DOMAIN p_campaigns[j] = RecordFields
    /\ \A a, b \in 1..Len(p_campaigns) : DOMAIN p_campaigns[a] = DOMAIN p_campaigns[b]


\* the number of reads without a new URL at the end of the history of reads
TrailingZeros(h) ==
    CHOOSE k \in 0..Len(h) :
        /\ \A j \in (Len(h) - k + 1)..Len(h) : h[j] = 0
        /\ (k < Len(h) => h[Len(h) - k] # 0)

\* C20: the strike counter is 0 when the loop starts, is always the number
\* of the most recent consecutive reads without a new URL and stays in
\* 0..3; a read with new URLs adds them all to the Frontier and sets the
\* counter to 0, a read without leaves the Frontier as it is and adds 1.
C20_StagnationCounter ==
    /\ [](/\ no_new_count \in 0..StrikeLimit
          /\ no_new_count = TrailingZeros(recent)
          /\ (reads = 0 => no_new_count = 0))
    /\ [][reads' = reads + 1 =>
            IF Last(recent') > 0
            THEN /\ no_new_count' = 0
                 /\ campaign_urls \subseteq campaign_urls'
                 /\ Cardinality(campaign_urls') = Cardinality(campaign_urls) + Last(recent')
            ELSE /\ no_new_count' = no_new_count + 1
                 /\ campaign_urls' = campaign_urls]_vars

C20_Witness ==
    /\ pc = "d_reveal"
    /\ recent = <<0, 1, 0>>
    /\ no_new_count = 1
    /\ Cardinality(campaign_urls) = 1


\* C21: between two consecutive reads of the listing exactly one reveal
\* attempt is made: a click when a button was found and clicked, the
\* scroll fallback when there is no button or its click failed; the attempt
\* neither raises nor ends the loop, and none is made after the read of a
\* Capped or Exhausted iteration.
C21_RevealBeforeNextRead ==
    /\ [](/\ revealed <= 1
          /\ (revealed = 1 =>
                /\ button \in Buttons
                /\ reveal_how = IF button \in {"missing", "click_fails"}
                                THEN "scroll" ELSE "click")
          /\ (outcome \in {"Capped", "Exhausted"} => revealed = 0))
    /\ [][/\ (reads' = reads + 1 /\ reads > 0 => revealed = 1)
          /\ (revealed' > revealed =>
                /\ pc = "d_reveal" /\ pc' = "d_loop"
                /\ revealed' = 1
                /\ exc' = "none"
                /\ outcome' = "Expanding")]_vars

C21_Witness ==
    /\ pc = "d_loop"
    /\ reads = 2
    /\ attempts = 2
    /\ revealed = 1
    /\ button = "missing"
    /\ reveal_how = "scroll"
    /\ exc = "none"
    /\ outcome = "Expanding"


\* C22: started with an empty record list, the paginated scraper ends; the
\* listing pages it requests are 1, 2, 3, ... in order, none above max_pages
\* and none after a page that yielded no campaign; the record list never
\* holds more than max_campaigns records, and a detail page is fetched only
\* while it holds fewer.
C22_PagedStoppingPolicy ==
    /\ <>(p_pc = "done")
    /\ [](/\ p_requested = [k \in 1..Len(p_requested) |-> k]
          /\ Len(p_requested) <= p_max_pages
          /\ Len(p_yield) = Len(p_requested)
          /\ \A k \in 1..Len(p_yield) : p_yield[k] = 0 => k = Len(p_yield)
          /\ Len(p_campaigns) <= p_max
          /\ p_details = Len(p_campaigns))
    /\ [][p_details' # p_details => Len(p_campaigns) < p_max]_vars

C22_Witness ==
    /\ p_pc = "done"
    /\ p_max = 2
    /\ p_max_pages = 2
    /\ p_requested = <<1, 2>>
    /\ p_yield = <<1, 2>>
    /\ p_details = 2
    /\ Len(p_campaigns) = 2

====
